---- MODULE Spec2Model ----
(***************************************************************************)
(* State-machine model of the SFTP writer component (src/src/component.py):*)
(* parameter validation, private-key parsing with algorithm fallback, the  *)
(* connection handshake, the retrying upload loop, the release of the      *)
(* connection and the exit code of the process.                            *)
(*                                                                         *)
(* Calls into the SSH library, the retry decorator and the platform        *)
(* library are the environment: every outcome such a call can have is a    *)
(* nondeterministic choice of the action that makes the call.              *)
(***************************************************************************)
EXTENDS Integers, Sequences, FiniteSets, TLC

VARIABLES
    pc,             \* position of the single thread of control
    params,         \* configuration.parameters, fixed after construction
    keyfile,        \* the StringIO built in get_private_key: [text, pos]
    failed,         \* local flag `failed` of _parse_private_key
    pkey,           \* result of get_private_key ("None" or an algorithm)
    keyTried,       \* history: algorithms whose from_private_key was called
    keyRead,        \* history: the lines each from_private_key call received
    transport,      \* "none" | "open" | "closed": the paramiko.Transport
    sftp,           \* "none" | "open" | "closed": the paramiko.SFTPClient
    connection,     \* self._connection is set
    connectCalls,   \* history: invocations of connect_to_server
    connCloseCalls, \* history: invocations of self._connection.close()
    sftpCloseCalls, \* history: invocations of self._sftp_client.close()
    tasks,          \* in_tables + in_files once enumerated
    cur,            \* index of the task being uploaded
    clock,          \* the current UTC time, in ticks
    destination,    \* local `destination` of _upload_file for the current task
    putArgs,        \* history: the argument tuples of the current task's transfer calls
    tries,          \* backoff's try counter for the current task
    lastOutcome,    \* outcome of the latest transfer call of the current task
    calls,          \* history: transfer calls issued per task
    oks,            \* history: successful transfer calls per task
    failedTask,     \* history: first task whose _upload_file raised (0 if none)
    err,            \* the exception that is propagating, NoErr if none
    firstErr,       \* history: the first exception of the run
    exitCode        \* process exit code, -1 while running

vars == <<pc, params, keyfile, failed, pkey, keyTried, keyRead,
          transport, sftp, connection, connectCalls, connCloseCalls,
          sftpCloseCalls, tasks, cur, clock, destination, putArgs, tries,
          lastOutcome, calls, oks, failedTask, err, firstErr, exitCode>>

----------------------------------------------------------------------------
(* Bounds *)

MaxKeyLines == 1
MaxTables == 1
MaxFiles == 2
MaxPathLen == 3
MaxNameLen == 3
MaxClock == 2

(* Program constants *)

MAX_RETRIES == 5

----------------------------------------------------------------------------
(* Configuration *)

ABSENT == "ABSENT"

\* A line of key text is the BEGIN tag of one algorithm, or text no decoder accepts.
KeyAlgorithms == <<"RSA", "DSS", "ECDSA", "Ed25519">>
KeyLineKinds == {"RSA", "DSS", "ECDSA", "Ed25519", "junk"}

KeyTexts == UNION {[1..n -> KeyLineKinds] : n \in 0..MaxKeyLines}

\* The value of '#private_key': the key is missing from the dictionary, or it
\* holds a text (the empty text included).
KeyParams ==
    {[present |-> FALSE, text |-> <<>>]} \cup {[present |-> TRUE, text |-> t] : t \in KeyTexts}

\* Strings the component computes with are sequences of characters.
PathChars == {"/", "d"}
NameChars == {"a", "."}

\* The remote directories and the logical names the destination is checked on.
Paths == UNION {[1..n -> PathChars] : n \in 1..MaxPathLen}
\* "." and ".." name directories, not inputs: a name has a character other than ".".
Names ==
    {nm \in UNION {[1..n -> NameChars] : n \in 1..MaxNameLen} : \E i \in DOMAIN nm : nm[i] # "."}

\* The remote directory of the runs that are followed from start to exit.
RunPath == <<"/", "d">>

\* The names of the inputs on disk in those runs.
RunName(kind) == IF kind = "table" THEN <<"a", ".", "a">> ELSE <<"a">>

Configurations ==
    [user : {ABSENT, "u"},
     private_key : KeyParams,
     pass : {ABSENT, "", "pw"},
     path : {RunPath},
     append_date : {ABSENT, "true", "false"}]

\* Python truthiness of a string parameter read with dict.get.
Truthy(v) == v # ABSENT /\ v # ""

KeyTruthy(k) == k.present /\ k.text # <<>>

\* validate_configuration(REQUIRED_PARAMETERS): user and path are required, and of
\* the group [#private_key, #pass] at least one has to be present and non-empty.
REQUIRED_PARAMETERS_ok(p) ==
    /\ p.user # ABSENT
    /\ KeyTruthy(p.private_key) \/ Truthy(p.pass)
    /\ p.path # <<>>

----------------------------------------------------------------------------
(* Exceptions *)

NoErr == [cls |-> "none", kind |-> "none", cause |-> "none", msg |-> "none"]

Exc(cls) == [cls |-> cls, kind |-> "unclassified", cause |-> "none", msg |-> "none"]

UserException(kind, cause, msg) ==
    [cls |-> "UserException", kind |-> kind, cause |-> cause, msg |-> msg]

\* Python's builtin hierarchy: IOError is OSError, and FileNotFoundError,
\* PermissionError, ConnectionError and socket.gaierror are subclasses of
\* OSError.
Bases(cls) ==
    CASE cls = "FileNotFoundError" -> {"FileNotFoundError", "OSError", "IOError", "Exception"}
      [] cls = "PermissionError" -> {"PermissionError", "OSError", "IOError", "Exception"}
      [] cls = "ConnectionError" -> {"ConnectionError", "OSError", "IOError", "Exception"}
      [] cls = "gaierror" -> {"gaierror", "OSError", "IOError", "Exception"}
      [] cls = "OSError" -> {"OSError", "IOError", "Exception"}
      [] cls = "AuthenticationException" -> {"AuthenticationException", "SSHException", "Exception"}
      [] OTHER -> {cls, "Exception"}

IsInstance(cls, classes) == Bases(cls) \cap classes # {}

----------------------------------------------------------------------------
(* Initial state: the component is constructed, nothing has run yet *)

Init ==
    /\ pc = "validate"
    /\ params \in Configurations
    /\ keyfile = [text |-> <<>>, pos |-> 0]
    /\ failed = FALSE
    /\ pkey = "None"
    /\ keyTried = <<>>
    /\ keyRead = <<>>
    /\ transport = "none"
    /\ sftp = "none"
    /\ connection = FALSE
    /\ connectCalls = 0
    /\ connCloseCalls = 0
    /\ sftpCloseCalls = 0
    /\ tasks = <<>>
    /\ cur = 0
    /\ clock = 0
    /\ destination = <<>>
    /\ putArgs = {}
    /\ tries = 0
    /\ lastOutcome = "none"
    /\ calls = [i \in 1..(MaxTables + MaxFiles) |-> 0]
    /\ oks = [i \in 1..(MaxTables + MaxFiles) |-> 0]
    /\ failedTask = 0
    /\ err = NoErr
    /\ firstErr = NoErr
    /\ exitCode = -1

keyVars == <<keyfile, failed, pkey, keyTried, keyRead>>
connVars == <<transport, sftp, connection, connectCalls, connCloseCalls, sftpCloseCalls>>
taskVars == <<tasks, cur, clock, destination, putArgs, tries, lastOutcome, calls,
              oks, failedTask>>

\* An exception starts to propagate; an exception raised while another one is
\* propagating (in a finally block) replaces it.
Raise(e) ==
    /\ err' = e
    /\ firstErr' = IF firstErr = NoErr THEN e ELSE firstErr

\* A run whose try block starts at its first statement: every exception goes
\* through the finally block.
OnRaiseBeforeTryFinally == "close_sftp"

\* Where control goes when a statement of run before connect_to_server raises
\* (lines 86-90 are outside the try block): the exception leaves run.
OnRaiseBeforeTry == "exit"

----------------------------------------------------------------------------
(* run, line 86: _validate_parameters *)

Validate ==
    /\ pc = "validate"
    /\ IF REQUIRED_PARAMETERS_ok(params)
         THEN /\ pc' = "get_private_key"
              /\ UNCHANGED <<err, firstErr>>
         ELSE /\ Raise(UserException("ConfigurationInvalid", "ValueError", "missing parameters"))
              /\ pc' = OnRaiseBeforeTry
    /\ UNCHANGED <<params, keyVars, connVars, taskVars, exitCode>>

----------------------------------------------------------------------------
(* Private-key parsing *)

\* StringIO.readlines(): everything from the current position to the end.
ReadLines(kf) == SubSeq(kf.text, kf.pos + 1, Len(kf.text))

\* The position of the StringIO after from_private_key has read it: readlines()
\* leaves it at the end of the text, and nothing in the component rewinds it.
PosAfterRead(kf) == Len(kf.text)

RECURSIVE FirstTag(_)
\* The first line that is a BEGIN tag, "junk" if there is none.
FirstTag(lines) ==
    IF lines = <<>> THEN "junk"
    ELSE IF Head(lines) # "junk" THEN Head(lines)
    ELSE FirstTag(Tail(lines))

\* <Algorithm>Key.from_private_key accepts the lines it is given.
Decodes(alg, lines) == FirstTag(lines) = alg

\* The text is validly encoded for the algorithm.
ValidFor(alg, text) == Decodes(alg, text)

\* The failures a decode that rejects its input can raise.
DecodeFailures == {"SSHException", "IndexError"}

\* The except clause around each from_private_key call of _parse_private_key.
ParseCatches(alg) ==
    IF alg = "RSA" THEN {"SSHException"} ELSE {"SSHException", "IndexError"}

\* The except clause of get_private_key around _parse_private_key.
GetKeyCatches == {"SSHException", "IndexError"}

\* The label of the attempt that follows a caught failure of `alg`.
NextAttempt(alg) ==
    CASE alg = "RSA" -> "dss"
      [] alg = "DSS" -> "ecdsa"
      [] alg = "ECDSA" -> "ed25519"
      [] OTHER -> "raise"

\* run line 88 and get_private_key up to the call of _parse_private_key.
GetPrivateKey ==
    /\ pc = "get_private_key"
    /\ IF ~params.private_key.present
         THEN \* params[KEY_PRIVATE_KEY] on a dictionary without the key
              /\ Raise(Exc("KeyError"))
              /\ pc' = OnRaiseBeforeTry
              /\ UNCHANGED keyVars
         ELSE IF params.private_key.text = <<>>
         THEN \* `if keystring:` is false, pkey stays None
              /\ pc' = "connect"
              /\ UNCHANGED <<keyVars, err, firstErr>>
         ELSE /\ keyfile' = [text |-> params.private_key.text, pos |-> 0]
              /\ pc' = "rsa"
              /\ UNCHANGED <<failed, pkey, keyTried, keyRead, err, firstErr>>
    /\ UNCHANGED <<params, connVars, taskVars, exitCode>>

\* One attempt of _parse_private_key, with what get_private_key does with an
\* exception that leaves _parse_private_key. A successful DSS or ECDSA attempt
\* resets `failed` (lines 155, 163); a successful RSA or Ed25519 attempt leaves
\* it as it is (lines 147, 170).
TryKey(label, alg) ==
    /\ pc = label
    /\ LET lines == ReadLines(keyfile) IN
       /\ keyfile' = [keyfile EXCEPT !.pos = PosAfterRead(keyfile)]
       /\ keyTried' = Append(keyTried, alg)
       /\ keyRead' = Append(keyRead, lines)
       /\ IF Decodes(alg, lines)
            THEN /\ pkey' = alg
                 /\ failed' = IF alg \in {"DSS", "ECDSA"} THEN FALSE ELSE failed
                 /\ pc' = "connect"
                 /\ UNCHANGED <<err, firstErr>>
            ELSE \E exc \in DecodeFailures :
                 /\ pkey' = pkey
                 /\ IF exc \in ParseCatches(alg) /\ NextAttempt(alg) # "raise"
                      THEN /\ failed' = TRUE
                           /\ pc' = NextAttempt(alg)
                           /\ UNCHANGED <<err, firstErr>>
                      ELSE /\ failed' = failed
                           /\ pc' = OnRaiseBeforeTry
                           /\ IF exc \in GetKeyCatches
                                THEN Raise(UserException("InvalidCredential", exc,
                                                         "Failed to parse private Key"))
                                ELSE Raise(Exc(exc))
    /\ UNCHANGED <<params, connVars, taskVars, exitCode>>

TryRSA == TryKey("rsa", "RSA")
TryDSS == TryKey("dss", "DSS")
TryECDSA == TryKey("ecdsa", "ECDSA")
TryEd25519 == TryKey("ed25519", "Ed25519")

----------------------------------------------------------------------------
(* connect_to_server *)

\* What Transport((host, port)) followed by conn.connect(...) can do: succeed, or
\* raise one of the three exceptions connect_to_server handles. `made` tells
\* whether the Transport object existed when the exception was raised: gaierror
\* comes from the constructor, an authentication rejection from conn.connect, and
\* an SSHException from either.
ConnectOutcomes ==
    {[exc |-> "none", made |-> TRUE],
     [exc |-> "AuthenticationException", made |-> TRUE],
     [exc |-> "SSHException", made |-> TRUE],
     [exc |-> "SSHException", made |-> FALSE],
     [exc |-> "gaierror", made |-> FALSE]}

AuthMessage == "Connection failed: recheck your authentication and host URL parameters"
HostMessage == "Connection failed: recheck your host URL and port parameters"

\* connect_to_server with its first two except clauses in the other order: an
\* AuthenticationException is an SSHException and is caught by that clause.
ClassifyConnectErrorSSHFirst(exc) ==
    IF IsInstance(exc, {"SSHException"})
      THEN UserException("ProtocolOrHostError", exc, HostMessage)
    ELSE IF IsInstance(exc, {"AuthenticationException"})
      THEN UserException("AuthenticationFailed", exc, AuthMessage)
    ELSE IF IsInstance(exc, {"gaierror"})
      THEN UserException("HostUnreachable", exc, HostMessage)
    ELSE Exc(exc)

\* The except clauses of connect_to_server, in their order. The exception raised
\* is a UserException with one of two messages; `kind` is the name the design
\* gives to the clause and `cause` is the chained exception (`from e`).
ClassifyConnectError(exc) ==
    IF IsInstance(exc, {"AuthenticationException"})
      THEN UserException("AuthenticationFailed", exc, AuthMessage)
    ELSE IF IsInstance(exc, {"SSHException"})
      THEN UserException("ProtocolOrHostError", exc, HostMessage)
    ELSE IF IsInstance(exc, {"gaierror"})
      THEN UserException("HostUnreachable", exc, HostMessage)
    ELSE Exc(exc)

\* A caller that calls connect_to_server again when it has raised.
OnConnectErrorRetry == "connect"

\* Where control goes when connect_to_server raises: run calls it once, before
\* its try block, so the exception leaves run.
OnConnectError == "exit"

\* run lines 89-96 and connect_to_server lines 111-119.
Connect ==
    /\ pc = "connect"
    /\ IF params.pass = ABSENT
         THEN \* params[KEY_PASSWORD] on a dictionary without the key
              /\ Raise(Exc("KeyError"))
              /\ pc' = OnRaiseBeforeTry
              /\ UNCHANGED <<transport, connectCalls>>
         ELSE /\ connectCalls' = connectCalls + 1
              /\ \E o \in ConnectOutcomes :
                   /\ transport' = IF o.made THEN "open" ELSE transport
                   /\ IF o.exc = "none"
                        THEN /\ pc' = "from_transport"
                             /\ UNCHANGED <<err, firstErr>>
                        ELSE /\ Raise(ClassifyConnectError(o.exc))
                             /\ pc' = OnConnectError
    /\ UNCHANGED <<params, keyVars, sftp, connection, connCloseCalls, sftpCloseCalls,
                   taskVars, exitCode>>

\* connect_to_server lines 121-124: SFTPClient.from_transport(conn) is outside the
\* try block, and run calls connect_to_server before its own try block.
FromTransport ==
    /\ pc = "from_transport"
    /\ \/ /\ sftp' = "open"
          /\ connection' = TRUE
          /\ pc' = "enumerate"
          /\ UNCHANGED <<err, firstErr>>
       \/ /\ Raise(Exc("SSHException"))
          /\ pc' = OnConnectError
          /\ UNCHANGED <<sftp, connection>>
    /\ UNCHANGED <<params, keyVars, transport, connectCalls, connCloseCalls,
                   sftpCloseCalls, taskVars, exitCode>>

----------------------------------------------------------------------------
(* run: the try block *)

\* A handler that logs the error of a task and goes on with the next task.
OnRaiseInTryContinue(i, n) ==
    IF i < n THEN [pc |-> "upload_file", cur |-> i + 1]
    ELSE [pc |-> "close_sftp", cur |-> i]

\* Where control goes when a statement of run's try block raises while task i of
\* n is current: `except Exception: raise` re-raises, the loop is left and the
\* finally block runs _close_connection.
OnRaiseInTry(i, n) == [pc |-> "close_sftp", cur |-> i]

\* A loop that steps over the task after the one just uploaded.
AfterUploadSkipNext(i, n) ==
    IF i + 1 < n THEN [pc |-> "upload_file", cur |-> i + 2]
    ELSE [pc |-> "close_sftp", cur |-> i]

\* Where control goes after task i of n has been uploaded.
AfterUpload(i, n) ==
    IF i < n THEN [pc |-> "upload_file", cur |-> i + 1]
    ELSE [pc |-> "close_sftp", cur |-> i]

\* One input definition: its kind and its logical name.
Task(kind) == [kind |-> kind, name |-> RunName(kind)]

\* in_files + in_tables: the two enumerations added in the other order.
TaskListFilesFirst(nt, nf) ==
    [i \in 1..(nt + nf) |-> IF i <= nf THEN Task("file") ELSE Task("table")]

\* in_tables + in_files
TaskList(nt, nf) ==
    [i \in 1..(nt + nf) |-> IF i <= nt THEN Task("table") ELSE Task("file")]

\* run lines 98-101: the two enumerations and the loop header.
Enumerate ==
    /\ pc = "enumerate"
    /\ \/ \E nt \in 0..MaxTables, nf \in 0..MaxFiles :
            /\ tasks' = TaskList(nt, nf)
            /\ cur' = IF nt + nf > 0 THEN 1 ELSE 0
            /\ pc' = IF nt + nf > 0 THEN "upload_file" ELSE "close_sftp"
            /\ UNCHANGED <<err, firstErr>>
       \/ \* an enumeration raises (an unreadable manifest)
          /\ Raise(Exc("ValueError"))
          /\ pc' = OnRaiseInTry(0, 0).pc
          /\ UNCHANGED <<tasks, cur>>
    /\ UNCHANGED <<params, keyVars, connVars, clock, destination, putArgs, tries,
                   lastOutcome, calls, oks, failedTask, exitCode>>

----------------------------------------------------------------------------
(* _upload_file *)

\* str.rfind: the last position of character c in s, 0 if there is none.
RFind(s, c) ==
    LET hits == {i \in 1..Len(s) : s[i] = c}
    IN IF hits = {} THEN 0 ELSE CHOOSE i \in hits : \A j \in hits : j <= i

\* os.path.basename: what follows the last "/".
Basename(s) == SubSeq(s, RFind(s, "/") + 1, Len(s))

\* A split at the last "." wherever it is.
SplitExtAtLastDot(s) ==
    LET dotIndex == RFind(s, ".")
    IN IF dotIndex > RFind(s, "/")
         THEN <<SubSeq(s, 1, dotIndex - 1), SubSeq(s, dotIndex, Len(s))>>
         ELSE <<s, <<>>>>

\* os.path.splitext: the extension starts at the last "." of the last path
\* component, unless only dots precede that "." in the component.
SplitExt(s) ==
    LET sepIndex == RFind(s, "/")
        dotIndex == RFind(s, ".")
    IN IF /\ dotIndex > sepIndex
          /\ \E k \in (sepIndex + 1)..(dotIndex - 1) : s[k] # "."
         THEN <<SubSeq(s, 1, dotIndex - 1), SubSeq(s, dotIndex, Len(s))>>
         ELSE <<s, <<>>>>

Digits == <<"0", "1", "2", "3", "4", "5", "6", "7", "8", "9">>

\* datetime.strftime with the format in use: the time written in decimal digits.
Strftime(t) == <<Digits[((t \div 10) % 10) + 1], Digits[(t % 10) + 1]>>

\* get_output_destination lines 196-199.
TimestampSuffix(p, now) ==
    IF p.append_date = "true" THEN <<"_">> \o Strftime(now) ELSE <<>>

\* get_output_destination lines 201-203: a "/" is added when the last character
\* of the configured path is not one.
BaseDir(path) == IF path[Len(path)] # "/" THEN path \o <<"/">> ELSE path

\* get_output_destination lines 205-206.
get_output_destination(p, name, now) ==
    LET parts == SplitExt(Basename(name))
    IN BaseDir(p.path) \o parts[1] \o TimestampSuffix(p, now) \o parts[2]

\* input_file.full_path
FullPath(task) == <<task.kind, "/">> \o task.name

\* A wrapper that resolves the destination again for each attempt.
TransferArgsResolvedPerAttempt(task, dest, p, now) ==
    <<FullPath(task), get_output_destination(p, task.name, now)>>

\* The arguments _upload_file hands to the retry wrapper, which passes them to
\* every call of the operation unchanged.
TransferArgs(task, dest, p, now) == <<FullPath(task), dest>>

\* _upload_file lines 177-181: get_output_destination reads params[KEY_APPENDDATE]
\* and resolves the destination of the task.
UploadFile ==
    /\ pc = "upload_file"
    /\ putArgs' = {}
    /\ IF params.append_date = ABSENT
         THEN /\ Raise(Exc("KeyError"))
              /\ failedTask' = IF failedTask = 0 THEN cur ELSE failedTask
              /\ pc' = OnRaiseInTry(cur, Len(tasks)).pc
              /\ cur' = OnRaiseInTry(cur, Len(tasks)).cur
              /\ UNCHANGED <<tries, lastOutcome, destination>>
         ELSE /\ destination' = get_output_destination(params, tasks[cur].name, clock)
              /\ tries' = 0
              /\ lastOutcome' = "none"
              /\ pc' = "put"
              /\ UNCHANGED <<err, firstErr, failedTask, cur>>
    /\ UNCHANGED <<params, keyVars, connVars, tasks, clock, calls, oks, exitCode>>

\* What one call of self._sftp_client.put can do.
PutOutcomes ==
    {"ok", "FileNotFoundError", "PermissionError", "ConnectionError", "OSError",
     "SSHException"}

\* The exception tuple of the backoff.on_exception decorator.
Retryable(exc) == IsInstance(exc, {"ConnectionError", "FileNotFoundError", "IOError"})

\* A retry loop without max_tries.
GiveUpNever(n) == FALSE

\* A retry loop that counts retries instead of tries: one call too many.
GiveUpOneLate(n) == n > MAX_RETRIES

\* backoff gives up when the try counter has reached max_tries.
GiveUp(n) == n >= MAX_RETRIES

\* _upload_file without its second except clause.
ClassifyUploadErrorNotFoundOnly(exc) ==
    IF IsInstance(exc, {"FileNotFoundError"})
      THEN UserException("RemotePathNotFound", exc, "Destination path not found")
    ELSE Exc(exc)

\* The except clauses of _upload_file.
ClassifyUploadError(exc) ==
    IF IsInstance(exc, {"FileNotFoundError"})
      THEN UserException("RemotePathNotFound", exc, "Destination path not found")
    ELSE IF IsInstance(exc, {"PermissionError"})
      THEN UserException("RemotePermissionDenied", exc, "Permission Error")
    ELSE Exc(exc)

\* A counter of calls after one more call. The component never makes more than
\* MAX_RETRIES calls for a file; the counter stops one above that.
Counted(n) == IF n <= MAX_RETRIES THEN n + 1 ELSE n

\* One call of the transfer primitive under the retry decorator
\* (_try_to_execute_sftp_operation), with what _upload_file and the loop of run do
\* with its result.
Put ==
    /\ pc = "put"
    /\ \E out \in PutOutcomes :
         /\ calls' = [calls EXCEPT ![cur] = Counted(@)]
         /\ tries' = Counted(tries)
         /\ lastOutcome' = out
         /\ putArgs' = putArgs \cup {TransferArgs(tasks[cur], destination, params, clock)}
         /\ IF out = "ok"
              THEN /\ oks' = [oks EXCEPT ![cur] = @ + 1]
                   /\ pc' = AfterUpload(cur, Len(tasks)).pc
                   /\ cur' = AfterUpload(cur, Len(tasks)).cur
                   /\ UNCHANGED <<err, firstErr, failedTask, clock>>
              ELSE IF Retryable(out) /\ ~GiveUp(Counted(tries))
              THEN \* backoff sleeps, which takes time, and calls again
                   /\ pc' = "put"
                   /\ clock' = IF clock < MaxClock THEN clock + 1 ELSE clock
                   /\ UNCHANGED <<oks, cur, err, firstErr, failedTask>>
              ELSE /\ Raise(ClassifyUploadError(out))
                   /\ failedTask' = IF failedTask = 0 THEN cur ELSE failedTask
                   /\ pc' = OnRaiseInTry(cur, Len(tasks)).pc
                   /\ cur' = OnRaiseInTry(cur, Len(tasks)).cur
                   /\ UNCHANGED <<oks, clock>>
    /\ UNCHANGED <<params, keyVars, connVars, tasks, destination, exitCode>>

----------------------------------------------------------------------------
(* _close_connection, run's finally block *)

\* self._sftp_client.close(): it returns, or it raises and the statement after
\* it is not reached. A close that raised may or may not have closed the channel.
CloseSftp ==
    /\ pc = "close_sftp"
    /\ sftpCloseCalls' = sftpCloseCalls + 1
    /\ \/ /\ sftp' = "closed"
          /\ pc' = "close_conn"
          /\ UNCHANGED <<err, firstErr>>
       \/ /\ sftp' \in {"open", "closed"}
          /\ Raise(Exc("OSError"))
          /\ pc' = "exit"
    /\ UNCHANGED <<params, keyVars, transport, connection, connectCalls,
                   connCloseCalls, taskVars, exitCode>>

\* self._connection.close(); then the exception of the try block, if any, goes on
\* propagating, else run logs "Done." and returns.
CloseConn ==
    /\ pc = "close_conn"
    /\ connCloseCalls' = connCloseCalls + 1
    /\ transport' = "closed"
    /\ pc' = "exit"
    /\ UNCHANGED <<params, keyVars, sftp, connection, connectCalls, sftpCloseCalls,
                   taskVars, err, firstErr, exitCode>>

----------------------------------------------------------------------------
(* Main entrypoint *)

\* The except clauses of the entrypoint; falling off the end exits with 0.
ExitCodeFor(e) ==
    IF e = NoErr THEN 0
    ELSE IF IsInstance(e.cls, {"UserException"}) THEN 1
    ELSE 2

Exit ==
    /\ pc = "exit"
    /\ exitCode' = ExitCodeFor(err)
    /\ pc' = "done"
    /\ UNCHANGED <<params, keyVars, connVars, taskVars, err, firstErr>>

----------------------------------------------------------------------------

Next ==
    \/ Validate
    \/ GetPrivateKey
    \/ TryRSA
    \/ TryDSS
    \/ TryECDSA
    \/ TryEd25519
    \/ Connect
    \/ FromTransport
    \/ Enumerate
    \/ UploadFile
    \/ Put
    \/ CloseSftp
    \/ CloseConn
    \/ Exit

Spec == Init /\ [][Next]_vars

\* The single thread of control keeps running: every call the component makes
\* returns or raises, so a step that can be taken is taken.
FairSpec == Spec /\ WF_vars(Next)

----------------------------------------------------------------------------
(* Destination resolution on its own: the component is connected and is about *)
(* to call _upload_file for one input, for every remote directory, logical    *)
(* name, date-stamping setting and time within the bounds.                    *)

InitDest ==
    /\ pc = "upload_file"
    /\ params \in [user : {"u"},
                   private_key : {[present |-> TRUE, text |-> <<>>]},
                   pass : {"pw"},
                   path : Paths,
                   append_date : {ABSENT, "true", "false"}]
    /\ keyfile = [text |-> <<>>, pos |-> 0]
    /\ failed = FALSE
    /\ pkey = "None"
    /\ keyTried = <<>>
    /\ keyRead = <<>>
    /\ transport = "open"
    /\ sftp = "open"
    /\ connection = TRUE
    /\ connectCalls = 1
    /\ connCloseCalls = 0
    /\ sftpCloseCalls = 0
    /\ \E kind \in {"table", "file"}, name \in Names :
         tasks = <<[kind |-> kind, name |-> name]>>
    /\ cur = 1
    /\ clock \in 0..MaxClock
    /\ destination = <<>>
    /\ putArgs = {}
    /\ tries = 0
    /\ lastOutcome = "none"
    /\ calls = [i \in 1..(MaxTables + MaxFiles) |-> 0]
    /\ oks = [i \in 1..(MaxTables + MaxFiles) |-> 0]
    /\ failedTask = 0
    /\ err = NoErr
    /\ firstErr = NoErr
    /\ exitCode = -1

NextDest == UploadFile

SpecDest == InitDest /\ [][NextDest]_vars

----------------------------------------------------------------------------
(* Properties *)

RunEnded == pc \in {"exit", "done"}

KeyStages == {"rsa", "dss", "ecdsa", "ed25519"}

\* _parse_private_key was entered and has been left.
KeyParsed == keyTried # <<>> /\ pc \notin KeyStages

TaskIds == 1..(MaxTables + MaxFiles)

\* The errors the retry policy is documented to treat as transient.
TransientErrors == {"ConnectionError", "OSError", "FileNotFoundError"}

\* The kinds of the classified, user-facing errors.
ClassifiedKinds ==
    {"InvalidCredential", "AuthenticationFailed", "ProtocolOrHostError",
     "HostUnreachable", "RemotePathNotFound", "RemotePermissionDenied",
     "ConfigurationInvalid"}

\* C1: in every run in which connect_to_server succeeded, by the time run() ends
\* the sub-channel and the transport have each been released exactly once.
C1_ReleasedExactlyOnce ==
    (RunEnded /\ connection) => (sftpCloseCalls = 1 /\ connCloseCalls = 1)

\* C2: when the process has exited, on whatever path, no transport and no
\* sub-channel that was opened is still open.
C2_AllReleasedAtExit ==
    pc = "done" => (transport # "open" /\ sftp # "open")

\* C3: once an attempt of the transfer primitive has failed with PermissionError,
\* no further attempt is pending for that file and the upload has failed with
\* RemotePermissionDenied.
C3_NoRetryOnPermissionDenied ==
    lastOutcome = "PermissionError" =>
        /\ pc # "put"
        /\ failedTask = cur
        /\ firstErr.kind = "RemotePermissionDenied"

\* C4: a file gets at most MAX_RETRIES transfer calls; a transient error before
\* the last try leaves a further call pending; a success on any try up to the
\* last makes the upload succeed; after MAX_RETRIES transient errors the upload
\* fails with the last error.
C4_AtMostMaxRetries ==
    /\ \A i \in TaskIds : calls[i] <= MAX_RETRIES
    /\ tries <= MAX_RETRIES
    /\ (lastOutcome \in TransientErrors /\ tries < MAX_RETRIES) =>
           (pc = "put" /\ failedTask = 0 /\ err = NoErr)
    /\ lastOutcome = "ok" => (failedTask = 0 /\ \A i \in TaskIds : oks[i] <= 1)
    /\ (lastOutcome \in TransientErrors /\ tries = MAX_RETRIES) =>
           /\ failedTask = cur
           /\ calls[cur] = MAX_RETRIES
           /\ IF firstErr.cls = "UserException"
                THEN firstErr.cause = lastOutcome
                ELSE firstErr.cls = lastOutcome

\* C4 witness: the fifth call for the first file succeeded after four transient errors.
C4_Witness ==
    /\ tries = MAX_RETRIES
    /\ lastOutcome = "ok"
    /\ calls[1] = MAX_RETRIES
    /\ oks[1] = 1

\* C5 as stated: whenever the upload of a file has failed, the error that left
\* _upload_file is a classified user-facing error.
C5_EveryUploadFailureClassified ==
    failedTask # 0 => (firstErr.cls = "UserException" /\ firstErr.kind \in ClassifiedKinds)

\* C5 amended: a failed upload leaves _upload_file as RemotePathNotFound when the
\* terminal transfer error is FileNotFoundError, as RemotePermissionDenied when it
\* is PermissionError, and otherwise as the unchanged, unclassified error (a
\* connection or generic I/O error after the last try, a non-retryable error, or
\* the KeyError of the destination step before any transfer).
C5_ClassifiedByTerminalError ==
    failedTask # 0 =>
        CASE lastOutcome = "FileNotFoundError" ->
                 firstErr.cls = "UserException" /\ firstErr.kind = "RemotePathNotFound"
          [] lastOutcome = "PermissionError" ->
                 firstErr.cls = "UserException" /\ firstErr.kind = "RemotePermissionDenied"
          [] lastOutcome = "none" ->
                 firstErr.cls = "KeyError" /\ firstErr.kind = "unclassified"
          [] OTHER ->
                 firstErr.cls = lastOutcome /\ firstErr.kind = "unclassified"

\* C5 witness: an upload failed with access denied and left as RemotePermissionDenied.
C5_Witness ==
    /\ failedTask # 0
    /\ lastOutcome = "PermissionError"
    /\ firstErr.kind = "RemotePermissionDenied"
    /\ pc = "done"

\* C6: once the upload of task i has failed, no transfer call has been or can be
\* issued for a task after i, and the run ends with an error.
C6_FailFast ==
    failedTask # 0 =>
        /\ \A j \in TaskIds : j > failedTask => calls[j] = 0
        /\ pc \notin {"upload_file", "put"}
        /\ err # NoErr
        /\ pc = "done" => exitCode \in {1, 2}

\* C6 witness: the second of three tasks failed and the process has exited.
C6_Witness ==
    /\ Len(tasks) = 3
    /\ failedTask = 2
    /\ calls[1] > 0 /\ calls[2] > 0 /\ calls[3] = 0
    /\ pc = "done"

\* C7: the exit code is 0 if the run had no error, 1 if its first error is a
\* classified user-facing error, and 2 otherwise.
C7_ExitCodeByFirstError ==
    pc = "done" =>
        exitCode = IF firstErr = NoErr THEN 0
                   ELSE IF firstErr.kind \in ClassifiedKinds THEN 1
                   ELSE 2

\* C8: with a password supplied and the private-key text empty or absent, key
\* parsing gives no key and no error, and the run goes on to connect_to_server
\* with pkey = None.
C8_PasswordOnlyReachesConnect ==
    (/\ params.user # ABSENT
     /\ Truthy(params.pass)
     /\ ~KeyTruthy(params.private_key)
     /\ pc \notin {"validate", "get_private_key"}) =>
        /\ keyTried = <<>>
        /\ pkey = "None"
        /\ pc = "connect" \/ connectCalls = 1

\* The first attempt raised an exception its except clause does not name, which
\* ended the chain after one attempt (the case C10 is about).
ChainCutAtFirstAttempt == KeyParsed /\ keyTried = <<"RSA">> /\ pkey = "None"

\* C9: every attempt of the fallback chain decodes the full key text, and when
\* the chain is not cut at its first attempt a key text that is validly encoded
\* for an algorithm yields a key of that algorithm.
C9_ValidKeyYieldsItsAlgorithm ==
    /\ \A i \in 1..Len(keyRead) : keyRead[i] = params.private_key.text
    /\ \A i \in 1..Len(KeyAlgorithms) :
         (/\ KeyParsed
          /\ ~ChainCutAtFirstAttempt
          /\ ValidFor(KeyAlgorithms[i], params.private_key.text)) =>
             pkey = KeyAlgorithms[i]

\* C10: for a non-empty key text valid under no algorithm, get_private_key fails
\* with InvalidCredential only after RSA, DSS, ECDSA and Ed25519 have each been
\* attempted once, in that order.
C10_AllFourAttemptedInOrder ==
    (/\ KeyParsed
     /\ \A i \in 1..Len(KeyAlgorithms) : ~ValidFor(KeyAlgorithms[i], params.private_key.text)) =>
        /\ keyTried = KeyAlgorithms
        /\ firstErr.kind = "InvalidCredential"

\* connect_to_server was called and raised.
ConnectFailed == connectCalls >= 1 /\ ~connection /\ pc # "from_transport"

\* connect_to_server raised one of the exceptions its except clauses convert
\* (the failure of from_transport leaves it unconverted).
HandshakeFailed == ConnectFailed /\ firstErr.cls = "UserException"

\* The exceptions of an authentication rejection, a protocol negotiation failure
\* and a DNS resolution failure.
ConnectCauses == {"AuthenticationException", "SSHException", "gaierror"}

\* What the caller sees of an exception: its class and its message.
Observable(e) == <<e.cls, e.msg>>

\* C11 as stated: the class and message of the error that leaves
\* connect_to_server tell which of the three causes occurred: no other cause
\* would have produced the same class and message.
C11_ThreeDistinctKinds ==
    HandshakeFailed =>
        \A c \in ConnectCauses \ {firstErr.cause} :
            Observable(ClassifyConnectError(c)) # Observable(firstErr)

\* C11 amended: an authentication rejection leaves connect_to_server as a
\* UserException with the authentication message, a protocol failure and a DNS
\* failure as a UserException with the one host/port message; the two messages
\* differ, so an authentication rejection is never reported as a host error.
C11_AuthDistinctFromHostErrors ==
    HandshakeFailed =>
        /\ firstErr.cls = "UserException"
        /\ firstErr.cause \in ConnectCauses
        /\ firstErr.cause = "AuthenticationException" => firstErr.msg = AuthMessage
        /\ firstErr.cause \in {"SSHException", "gaierror"} => firstErr.msg = HostMessage
        /\ AuthMessage # HostMessage

\* C11 witness: a DNS failure was reported with the host/port message.
C11_Witness ==
    /\ HandshakeFailed
    /\ firstErr.cause = "gaierror"
    /\ firstErr.msg = HostMessage
    /\ pc = "done"

\* C12: connect_to_server is called at most once, and when it has raised the run
\* is over: nothing was enumerated and no transfer call is ever issued.
C12_ConnectFailureTerminal ==
    /\ connectCalls <= 1
    /\ ConnectFailed =>
           /\ pc \in {"exit", "done"}
           /\ tasks = <<>>
           /\ \A i \in TaskIds : calls[i] = 0

\* C12 witness: the one connect attempt failed and the process has exited.
C12_Witness ==
    /\ ConnectFailed
    /\ connectCalls = 1
    /\ pc = "done"
    /\ exitCode = 1

\* _upload_file has resolved the destination of the current task.
Resolved == pc = "put" /\ destination # <<>>

\* C13: in the path get_output_destination returns, the base directory ends with
\* exactly one "/": the "/" before the file name is not preceded by another one.
C13_ExactlyOneSeparator ==
    Resolved =>
        LET k == RFind(destination, "/")
        IN /\ k >= 1
           /\ k > 1 => destination[k - 1] # "/"

\* The destination of the current task has been resolved and no transfer call
\* has been made for it yet.
JustResolved == Resolved /\ tries = 0

\* The logical name of the current task.
CurName == tasks[cur].name

\* The suffix the design gives: "_" and the formatted time when date-stamping is
\* enabled, nothing otherwise.
StatedSuffix ==
    IF params.append_date = "true" THEN <<"_">> \o Strftime(clock) ELSE <<>>

\* The base directories a destination may start with: the configured directory,
\* as it is or with one "/" added.
StatedBases == {params.path, params.path \o <<"/">>}

\* C14 as stated: the destination is base_dir + stem + suffix + extension, the
\* extension being everything of the logical name from its last "." onward
\* (empty if the name has no ".") and the stem the rest of the name.
C14_SplitAtLastDot ==
    JustResolved =>
        LET d == RFind(CurName, ".")
            stem == IF d = 0 THEN CurName ELSE SubSeq(CurName, 1, d - 1)
            ext == IF d = 0 THEN <<>> ELSE SubSeq(CurName, d, Len(CurName))
        IN \E base \in StatedBases : destination = base \o stem \o StatedSuffix \o ext

\* C14 amended: as stated, except that a last "." that is the first character of
\* the name, or has only "." characters before it, starts no extension: the
\* extension is then empty and the stem is the whole name.
C14_SplitAtLastDotAfterLeadingDots ==
    JustResolved =>
        LET d == RFind(CurName, ".")
            none == d = 0 \/ \A k \in 1..(d - 1) : CurName[k] = "."
            stem == IF none THEN CurName ELSE SubSeq(CurName, 1, d - 1)
            ext == IF none THEN <<>> ELSE SubSeq(CurName, d, Len(CurName))
        IN \E base \in StatedBases : destination = base \o stem \o StatedSuffix \o ext

\* C14 witness: a name whose only "." is its first character was resolved with
\* date-stamping enabled, and the time stamp follows the whole name.
C14_Witness ==
    /\ JustResolved
    /\ CurName = <<".", "a">>
    /\ params.append_date = "true"
    /\ params.path = <<"d">>
    /\ clock = 1
    /\ destination = <<"d", "/", ".", "a", "_", "0", "1">>

\* C16: all transfer calls of one file are made with one argument tuple, the
\* local path of the file and the destination resolved before the first call.
C16_SameArgumentsOnRetry ==
    /\ Cardinality(putArgs) <= 1
    /\ \A a \in putArgs : a[2] = destination /\ a[1] \in {FullPath(tasks[i]) : i \in 1..Len(tasks)}

\* C16 witness: with date-stamping enabled a file was tried again after the clock
\* had advanced, and the failing file's calls all used the first destination.
C16_Witness ==
    /\ params.append_date = "true"
    /\ pc = "put"
    /\ tries = 3
    /\ clock = 2
    /\ cur = 1
    /\ Cardinality(putArgs) = 1
    /\ destination = get_output_destination(params, tasks[1].name, 0)

\* C15: the tasks are the tables followed by the files; a task gets its first
\* transfer call only after the task before it has had a successful one, and
\* only the current task gets calls: the tasks before it are complete and the
\* tasks after it have had none.
C15_SequentialInOrder ==
    /\ \A i, j \in 1..Len(tasks) :
         i < j => ~(tasks[i].kind = "file" /\ tasks[j].kind = "table")
    /\ \A i \in TaskIds : (i + 1 \in TaskIds /\ calls[i + 1] > 0) => oks[i] >= 1
    /\ \A j \in TaskIds : j > cur => calls[j] = 0
    /\ \A j \in TaskIds : j < cur => (calls[j] > 0 /\ oks[j] >= 1)

\* C15 witness: of a table and two files, the table was uploaded at its second
\* attempt and the first file is being transferred.
C15_Witness ==
    /\ Len(tasks) = 3
    /\ tasks[1].kind = "table" /\ tasks[2].kind = "file"
    /\ calls[1] = 2 /\ oks[1] = 1
    /\ cur = 2 /\ pc = "put" /\ calls[2] = 1 /\ calls[3] = 0

\* The release step (_close_connection) has been run and left.
ReleaseStepOver == sftpCloseCalls > 0 /\ pc \in {"exit", "done"}

\* C17: the sub-channel is open only while the transport is open, and after the
\* release step either both are closed or neither is.
C17_ReleasedTogether ==
    /\ sftp = "open" => transport = "open"
    /\ ReleaseStepOver => (sftp = "closed" <=> transport = "closed")

\* C18: every run reaches the exit of the process.
C18_Terminates == <>(pc = "done")

\* C18 witness: a run that made the maximal number of transfer calls for each of
\* three tasks has exited.
C18_Witness ==
    /\ pc = "done"
    /\ Len(tasks) = 3
    /\ calls[1] = MAX_RETRIES /\ calls[2] = MAX_RETRIES /\ calls[3] = MAX_RETRIES

\* C19: a run that exits with 0 has exactly one successful transfer call for
\* every enumerated task, and a task that has had a successful call gets no
\* further call.
C19_EachTaskOnce ==
    /\ (pc = "done" /\ exitCode = 0) => \A i \in 1..Len(tasks) : oks[i] = 1
    /\ \A i \in TaskIds : oks[i] <= 1
    /\ \A i \in TaskIds : oks[i] = 1 => (i < cur \/ pc \notin {"upload_file", "put"})

\* C19 witness: three tasks were uploaded, the second at its third attempt, and
\* the process exited with 0.
C19_Witness ==
    /\ pc = "done" /\ exitCode = 0
    /\ Len(tasks) = 3
    /\ calls[2] = 3
    /\ \A i \in 1..3 : oks[i] = 1

\* C20: while the key is parsed nothing has been connected, and in a run whose
\* key failed to parse or whose configuration was rejected no transport exists,
\* connect_to_server was not called and the release step was not run.
C20_NoConnectionAfterEarlyFailure ==
    /\ pc \in KeyStages \cup {"validate", "get_private_key"} =>
           (connectCalls = 0 /\ transport = "none")
    /\ firstErr.kind \in {"InvalidCredential", "ConfigurationInvalid"} =>
           /\ transport = "none" /\ sftp = "none" /\ ~connection
           /\ connectCalls = 0
           /\ sftpCloseCalls = 0 /\ connCloseCalls = 0

\* C20 witness: all four algorithms rejected the key and the process has exited.
C20_Witness ==
    /\ firstErr.kind = "InvalidCredential"
    /\ Len(keyTried) = 4
    /\ pc = "done"
    /\ exitCode = 1

====
